---- MODULE Spec2Model ----
(***************************************************************************)
(* Model of src/main.py: the image captioning service.                     *)
(*                                                                         *)
(* One process serves requests one at a time (the endpoint is an async     *)
(* function without any await, so a request runs to completion before the  *)
(* next one starts).  The state is the module-level handle `captioner`,    *)
(* the local variables of the request being served, the response it        *)
(* returned, and `calls`, the trace of the calls the request made to its   *)
(* collaborators (os.path.isdir, os.listdir, Image.open, the captioner).   *)
(* requests_served counts the requests answered since startup.             *)
(*                                                                         *)
(* The exceptions of the collaborators are Exception subclasses, as        *)
(* OSError and the errors of PIL and of the pipeline are.                  *)
(*                                                                         *)
(* Strings whose content the code inspects (file names, paths, generated   *)
(* text) are sequences of one-character strings, so that lower(),          *)
(* endswith(), strip() and path joining are computed, not assumed.         *)
(***************************************************************************)
EXTENDS Integers, Sequences, FiniteSets, TLC

VARIABLES captioner, pc, folder_path, all_files_in_dir, image_filenames,
          total_images_found, idx, filename, img, captions_output,
          results, errors, response, calls, requests_served

vars == <<captioner, pc, folder_path, all_files_in_dir, image_filenames,
          total_images_found, idx, filename, img, captions_output,
          results, errors, response, calls, requests_served>>

\* Longest directory listing os.listdir returns in the model.
MaxEntries == 3

\* Number of requests followed from startup on.
MaxRequests == 2

-----------------------------------------------------------------------------
(* Strings *)

UpperChars == <<"A","B","C","D","E","F","G","H","I","J","K","L","M",
                "N","O","P","Q","R","S","T","U","V","W","X","Y","Z">>

LowerChars == <<"a","b","c","d","e","f","g","h","i","j","k","l","m",
                "n","o","p","q","r","s","t","u","v","w","x","y","z">>

\* str.lower() on one character.
LowerChar(c) ==
    IF \E i \in DOMAIN UpperChars : UpperChars[i] = c
    THEN LowerChars[CHOOSE i \in DOMAIN UpperChars : UpperChars[i] = c]
    ELSE c

\* str.lower()
Lower(s) == [i \in DOMAIN s |-> LowerChar(s[i])]

\* str.endswith(suffix) for one suffix.
EndsWith(s, suffix) ==
    /\ Len(s) >= Len(suffix)
    /\ SubSeq(s, Len(s) - Len(suffix) + 1, Len(s)) = suffix

\* str.endswith(tuple): true when some element of the tuple is a suffix.
EndsWithAny(s, suffixes) == \E i \in DOMAIN suffixes : EndsWith(s, suffixes[i])

SUPPORTED_EXTENSIONS ==
    << <<".","p","n","g">>, <<".","j","p","g">>, <<".","j","p","e","g">>,
       <<".","b","m","p">>, <<".","g","i","f">>, <<".","w","e","b","p">> >>

WhitespaceChars == {" ", "\t", "\n"}

RECURSIVE LStrip(_)
LStrip(s) ==
    IF s # <<>> /\ Head(s) \in WhitespaceChars THEN LStrip(Tail(s)) ELSE s

RECURSIVE RStrip(_)
RStrip(s) ==
    IF s # <<>> /\ s[Len(s)] \in WhitespaceChars
    THEN RStrip(SubSeq(s, 1, Len(s) - 1))
    ELSE s

\* A faulty strip() that trims the left side only.
Strip_LeftOnly(s) == LStrip(s)

\* str.strip()
Strip(s) == RStrip(LStrip(s))

-----------------------------------------------------------------------------
(* Paths *)

\* The working directory of the process.
Cwd == <<"/","w">>

\* os.path.join(folder, name)
PathJoin(folder, name) ==
    IF name # <<>> /\ name[1] = "/" THEN name
    ELSE IF folder = <<>> \/ folder[Len(folder)] = "/" THEN folder \o name
    ELSE folder \o <<"/">> \o name

\* os.path.abspath(path), for paths without "." and ".." components.
AbsPath(path) ==
    IF path # <<>> /\ path[1] = "/" THEN path ELSE PathJoin(Cwd, path)

\* The folder_location values of the requests.
FolderPaths == { <<"p">> }

-----------------------------------------------------------------------------
(* The file system *)

\* Names a directory may hold.  Those of SubdirNames name subdirectories,
\* the others regular files.
FileNames ==
    { <<"a",".","j","p","g">>,
      <<"b",".","t","x","t">>,
      <<"C",".","P","N","G">>,
      <<"e",".","j","p","e","g">> }

SubdirNames ==
    { <<"d",".","g","i","f">>,
      <<"s","u","b">> }

EntryNames == FileNames \cup SubdirNames

\* What os.listdir may return: the names of the entries, in any order.
Listings ==
    UNION { { s \in [1..n -> EntryNames] :
                \A i, j \in 1..n : i # j => s[i] # s[j] } : n \in 0..MaxEntries }

-----------------------------------------------------------------------------
(* Python values the request handler inspects *)

PyNone == [t |-> "None"]

PyStr(s) == [t |-> "str", s |-> s]

PyDict(d) == [t |-> "dict", d |-> d]

PyList(items) == [t |-> "list", items |-> items]

PyTuple(items) == [t |-> "tuple", items |-> items]

\* A local variable that has not been assigned.
Unbound == [t |-> "unbound"]

\* bool(v)
Truthy(v) ==
    CASE v.t = "None" -> FALSE
      [] v.t = "str" -> v.s # <<>>
      [] v.t = "dict" -> DOMAIN v.d # {}
      [] v.t \in {"list", "tuple"} -> v.items # <<>>
      [] OTHER -> TRUE

\* The decoded image of the file at `path`.
PyImage(path) == [t |-> "image", path |-> path]

\* Texts the model may generate.
GeneratedTexts ==
    { <<>>,
      <<" ">>,
      <<"a"," ","b">>,
      <<" ","a"," ","b","\n">> }

\* What one element of the captioner's output may be.
OutputElements ==
    { PyStr(<<"a"," ","b">>),
      PyDict("label" :> PyStr(<<"a"," ","b">>)),
      PyDict("generated_text" :> PyNone) }
    \cup { PyDict("generated_text" :> PyStr(txt)) : txt \in GeneratedTexts }

\* What a call of the captioner may return.
CaptionerOutputs ==
    { PyNone, PyList(<<>>),
      PyTuple(<< PyDict("generated_text" :> PyStr(<<"a"," ","b">>)) >>),
      PyList(<< PyStr(<<"a"," ","b">>),
                PyDict("generated_text" :> PyStr(<<"a"," ","b">>)) >>),
      PyList(<< PyDict("generated_text" :> PyStr(<<"a"," ","b">>)),
                PyStr(<<"a"," ","b">>) >>) }
    \cup { PyList(<<e>>) : e \in OutputElements }

-----------------------------------------------------------------------------
(* Records of the response *)

ImageCaptionResponseItem(image_path, description) ==
    [image_path |-> image_path, description |-> description]

\* f"{filename}: {msg}"
ErrorString(name, msg) == name \o <<":", " ">> \o msg

MsgNotFound == << "Image file not found. Skipping." >>

MsgLoadFailed == << "An unexpected error occurred while loading image. Skipping." >>

MsgImageNone == << "Image object is None after attempting to load. Skipping." >>

MsgUnexpectedFormat == << "Caption output format unexpected. Skipping." >>

MsgEmptyOutput == << "Captioner returned empty or None output. Skipping." >>

MsgGenerationFailed == << "An error occurred during caption generation." >>

HTTPException(status_code, detail) == [status |-> status_code, detail |-> detail]

CaptionSummaryResponse(total, count, res, message, errs) ==
    [status |-> 200,
     body |-> [total_images_found |-> total,
               successfully_captioned |-> count,
               results |-> res,
               message |-> message,
               errors |-> errs]]

\* No response has been returned yet.
NoResponse == [status |-> 0]

\* The record of one call to a collaborator: what was called, on what, and
\* whether it returned (for isdir: whether it returned True).
Call(op, arg, ok) == [op |-> op, arg |-> arg, ok |-> ok]

-----------------------------------------------------------------------------
(* The summary message *)

Message(kind, total, count, discrepancy) ==
    [kind |-> kind, total |-> total, count |-> count, discrepancy |-> discrepancy]

\* The message for a folder without any supported image.
NoImagesMessage == Message("no_images", 0, 0, FALSE)

\* A faulty summary that tests "some succeeded" before "all succeeded".
SummaryMessage_Reordered(total, count, errs) ==
    LET kind == IF count > 0 THEN "partial"
                ELSE IF count = total /\ total > 0 THEN "all"
                ELSE IF total > 0 /\ count = 0 THEN "none"
                ELSE "not_processed"
    IN  Message(kind, total, count, errs = <<>> /\ count < total /\ total > 0)

\* The message of a report, from the counts and the errors.
SummaryMessage(total, count, errs) ==
    LET kind == IF count = total /\ total > 0 THEN "all"
                ELSE IF count > 0 THEN "partial"
                ELSE IF total > 0 /\ count = 0 THEN "none"
                ELSE "not_processed"
    IN  Message(kind, total, count, errs = <<>> /\ count < total /\ total > 0)

-----------------------------------------------------------------------------
(* The process *)

Init ==
    /\ captioner = "None"
    /\ pc = "startup"
    /\ folder_path = <<>>
    /\ all_files_in_dir = <<>>
    /\ image_filenames = <<>>
    /\ total_images_found = 0
    /\ idx = 0
    /\ filename = <<>>
    /\ img = PyNone
    /\ captions_output = Unbound
    /\ results = <<>>
    /\ errors = <<>>
    /\ response = NoResponse
    /\ calls = <<>>
    /\ requests_served = 0

\* The locals of the request handler, as they are before it runs.
FreshLocals ==
    /\ all_files_in_dir' = <<>>
    /\ image_filenames' = <<>>
    /\ total_images_found' = 0
    /\ idx' = 0
    /\ filename' = <<>>
    /\ img' = PyNone
    /\ captions_output' = Unbound
    /\ results' = <<>>
    /\ errors' = <<>>

\* Startup: the pipeline is built once.  Building it may raise, and so may
\* reading its device after it was built; either leaves the handle None.
startup_event ==
    /\ pc = "startup"
    /\ \E outcome \in {"ok", "pipeline_raises", "device_raises"} :
         captioner' = IF outcome = "ok" THEN "pipeline" ELSE "None"
    /\ pc' = "idle"
    /\ UNCHANGED <<folder_path, all_files_in_dir, image_filenames,
                   total_images_found, idx, filename, img, captions_output,
                   results, errors, response, calls, requests_served>>

\* A request arrives, once startup is over and the request before it has
\* been answered.
ReceiveRequest ==
    /\ pc \in {"idle", "done"}
    /\ requests_served < MaxRequests
    /\ \E path \in FolderPaths : folder_path' = path
    /\ FreshLocals
    /\ response' = NoResponse
    /\ calls' = <<>>
    /\ pc' = "check_captioner"
    /\ UNCHANGED <<captioner, requests_served>>

\* Ends the request with an HTTPException.
Raise(status_code, detail) ==
    /\ response' = HTTPException(status_code, detail)
    /\ requests_served' = requests_served + 1
    /\ pc' = "done"

\* Ends the request with a report.
Return(report) ==
    /\ response' = report
    /\ requests_served' = requests_served + 1
    /\ pc' = "done"

\* The request goes on to the step `next`.
Goto(next) ==
    /\ pc' = next
    /\ UNCHANGED <<response, requests_served>>

\* A faulty handler that does not check the handle before going on.
CheckCaptioner_Unchecked ==
    /\ pc = "check_captioner"
    /\ Goto("check_folder")
    /\ UNCHANGED <<captioner, folder_path, all_files_in_dir, image_filenames,
                   total_images_found, idx, filename, img, captions_output,
                   results, errors, calls>>

\* A faulty handler that builds the pipeline when it finds the handle None.
CheckCaptioner_Reload ==
    /\ pc = "check_captioner"
    /\ captioner' = "pipeline"
    /\ Goto("check_folder")
    /\ UNCHANGED <<folder_path, all_files_in_dir, image_filenames,
                   total_images_found, idx, filename, img, captions_output,
                   results, errors, calls>>

CheckCaptioner ==
    /\ pc = "check_captioner"
    /\ IF captioner = "None"
       THEN Raise(503, "Captioning service is unavailable. Model not loaded.")
       ELSE Goto("check_folder")
    /\ UNCHANGED <<captioner, folder_path, all_files_in_dir, image_filenames,
                   total_images_found, idx, filename, img, captions_output,
                   results, errors, calls>>

CheckFolder ==
    /\ pc = "check_folder"
    /\ \E isdir \in BOOLEAN :
         /\ calls' = Append(calls, Call("isdir", folder_path, isdir))
         /\ IF ~isdir
            THEN Raise(400, "The folder does not exist or is not a directory.")
            ELSE Goto("list_folder")
    /\ UNCHANGED <<captioner, folder_path, all_files_in_dir, image_filenames,
                   total_images_found, idx, filename, img, captions_output,
                   results, errors>>

\* A faulty handler that takes a failed listing for an empty folder.
ListdirRaises_AsEmpty ==
    /\ calls' = Append(calls, Call("listdir", folder_path, FALSE))
    /\ all_files_in_dir' = <<>>
    /\ Goto("filter")

\* os.listdir raised OSError.
ListdirRaises ==
    /\ calls' = Append(calls, Call("listdir", folder_path, FALSE))
    /\ Raise(500, "Could not read directory contents")
    /\ UNCHANGED all_files_in_dir

\* os.listdir returned the names of the entries.
ListdirReturns ==
    /\ calls' = Append(calls, Call("listdir", folder_path, TRUE))
    /\ \E listing \in Listings : all_files_in_dir' = listing
    /\ Goto("filter")

ListFolder ==
    /\ pc = "list_folder"
    /\ results' = <<>>
    /\ errors' = <<>>
    /\ (ListdirRaises \/ ListdirReturns)
    /\ UNCHANGED <<captioner, folder_path, image_filenames, total_images_found,
                   idx, filename, img, captions_output>>

\* [f for f in all_files_in_dir if f.lower().endswith(SUPPORTED_EXTENSIONS)]
RECURSIVE FilterSupported(_)
FilterSupported(names) ==
    IF names = <<>> THEN <<>>
    ELSE IF EndsWithAny(Lower(Head(names)), SUPPORTED_EXTENSIONS)
         THEN <<Head(names)>> \o FilterSupported(Tail(names))
         ELSE FilterSupported(Tail(names))

FilterImages ==
    /\ pc = "filter"
    /\ image_filenames' = FilterSupported(all_files_in_dir)
    /\ total_images_found' = Len(image_filenames')
    /\ IF total_images_found' = 0
       THEN Return(CaptionSummaryResponse(0, 0, <<>>, NoImagesMessage, <<>>))
       ELSE Goto("loop")
    /\ UNCHANGED <<captioner, folder_path, all_files_in_dir, idx, filename, img,
                   captions_output, results, errors, calls>>

\* for filename in image_filenames: the next candidate, or the end of the loop.
LoopNext ==
    /\ pc = "loop"
    /\ IF idx < Len(image_filenames)
       THEN /\ idx' = idx + 1
            /\ filename' = image_filenames[idx + 1]
            /\ img' = PyNone
            /\ Goto("load")
       ELSE /\ Goto("summarize")
            /\ UNCHANGED <<idx, filename, img>>
    /\ UNCHANGED <<captioner, folder_path, all_files_in_dir, image_filenames,
                   total_images_found, captions_output, results, errors, calls>>

current_image_path_relative == PathJoin(folder_path, filename)

current_image_path_absolute == AbsPath(current_image_path_relative)

\* Image.open(path).convert("RGB"): a directory cannot be opened as an image;
\* a file may be gone, may fail to decode, or decodes.
LoadOutcomes(name) ==
    IF name \in SubdirNames THEN {"not_found", "error"}
    ELSE {"not_found", "error", "ok"}

\* A faulty loop body that lets the failure of a candidate escape.
RecordError_Escapes(msg) ==
    /\ Raise(500, "Internal Server Error")
    /\ UNCHANGED errors

\* A faulty loop body that skips a failed candidate without recording it.
RecordError_Silent(msg) ==
    /\ Goto("loop")
    /\ UNCHANGED errors

\* An except clause of the loop body, or one of its else branches: the
\* error is recorded for the candidate and the loop goes on.
RecordError(msg) ==
    /\ errors' = Append(errors, ErrorString(filename, msg))
    /\ Goto("loop")

LoadImage ==
    /\ pc = "load"
    /\ \E outcome \in LoadOutcomes(filename) :
         /\ calls' = Append(calls, Call("open", current_image_path_relative,
                                        outcome = "ok"))
         /\ CASE outcome = "ok" ->
                   /\ img' = PyImage(current_image_path_relative)
                   /\ Goto("caption")
                   /\ UNCHANGED errors
              [] outcome = "not_found" ->
                   /\ RecordError(MsgNotFound)
                   /\ UNCHANGED img
              [] outcome = "error" ->
                   /\ RecordError(MsgLoadFailed)
                   /\ UNCHANGED img
    /\ UNCHANGED <<captioner, folder_path, all_files_in_dir, image_filenames,
                   total_images_found, idx, filename, captions_output, results>>

\* The call of the captioner: it raises (as calling None does), or returns.
CallCaptioner ==
    /\ pc = "caption"
    /\ IF img = PyNone
       THEN /\ RecordError(MsgImageNone)
            /\ UNCHANGED <<captions_output, calls>>
       ELSE \/ /\ calls' = Append(calls, Call("captioner", img.path, FALSE))
               /\ RecordError(MsgGenerationFailed)
               /\ UNCHANGED captions_output
            \/ /\ captioner # "None"
               /\ calls' = Append(calls, Call("captioner", img.path, TRUE))
               /\ \E output \in CaptionerOutputs : captions_output' = output
               /\ Goto("validate")
               /\ UNCHANGED errors
    /\ UNCHANGED <<captioner, folder_path, all_files_in_dir, image_filenames,
                   total_images_found, idx, filename, img, results>>

\* The checks on the captioner's output.  "result": a caption is appended;
\* "raised": .strip() is called on a value that has none, and the except
\* clause records the error; otherwise the error of the else branch taken.
OutputVerdict(output) ==
    IF Truthy(output) /\ output.t = "list" /\ Len(output.items) > 0
    THEN LET first_result == output.items[1]
         IN  IF first_result.t = "dict" /\ "generated_text" \in DOMAIN first_result.d
             THEN IF first_result.d["generated_text"].t = "str"
                  THEN "result"
                  ELSE "raised"
             ELSE "unexpected"
    ELSE "empty"

\* A faulty append that puts the newest result first.
AppendResult_AtFront(item) == results' = <<item>> \o results

\* results.append(ImageCaptionResponseItem(...))
AppendResult(item) == results' = Append(results, item)

ValidateOutput ==
    /\ pc = "validate"
    /\ LET verdict == OutputVerdict(captions_output)
       IN  CASE verdict = "result" ->
                  LET generated_text ==
                          Strip(captions_output.items[1].d["generated_text"].s)
                  IN  /\ AppendResult(ImageCaptionResponseItem(
                                          current_image_path_absolute, generated_text))
                      /\ Goto("loop")
                      /\ UNCHANGED errors
             [] verdict = "raised" ->
                  /\ RecordError(MsgGenerationFailed)
                  /\ UNCHANGED results
             [] verdict = "unexpected" ->
                  /\ RecordError(MsgUnexpectedFormat)
                  /\ UNCHANGED results
             [] verdict = "empty" ->
                  /\ RecordError(MsgEmptyOutput)
                  /\ UNCHANGED results
    /\ UNCHANGED <<captioner, folder_path, all_files_in_dir, image_filenames,
                   total_images_found, idx, filename, img, captions_output, calls>>

\* A faulty count: the images found, not the images captioned.
successfully_captioned_count_AsFound == total_images_found

\* successfully_captioned_count = len(results)
successfully_captioned_count == Len(results)

Summarize ==
    /\ pc = "summarize"
    /\ Return(CaptionSummaryResponse(
                  total_images_found, successfully_captioned_count, results,
                  SummaryMessage(total_images_found, successfully_captioned_count,
                                 errors),
                  errors))
    /\ UNCHANGED <<captioner, folder_path, all_files_in_dir, image_filenames,
                   total_images_found, idx, filename, img, captions_output,
                   results, errors, calls>>

Next ==
    \/ startup_event
    \/ ReceiveRequest
    \/ CheckCaptioner
    \/ CheckFolder
    \/ ListFolder
    \/ FilterImages
    \/ LoopNext
    \/ LoadImage
    \/ CallCaptioner
    \/ ValidateOutput
    \/ Summarize

Spec == Init /\ [][Next]_vars

-----------------------------------------------------------------------------
(* What the properties below speak of *)

\* The request has been answered.
Answered == pc = "done"

\* The request was answered with a report.
Reported == pc = "done" /\ response.status = 200

OpenCalls == SelectSeq(calls, LAMBDA c : c.op = "open")

CaptionerCalls == SelectSeq(calls, LAMBDA c : c.op = "captioner")

Args(cs) == [i \in DOMAIN cs |-> cs[i].arg]

\* The path the report gives for the candidate `name`.
ReportedPath(name) == AbsPath(PathJoin(folder_path, name))

\* The error string `e` is prefixed with the file name `name`.
IsErrorOf(name, e) ==
    /\ Len(e) >= Len(name) + 2
    /\ SubSeq(e, 1, Len(name) + 2) = name \o <<":", " ">>

HasResult(name) ==
    \E k \in DOMAIN results : results[k].image_path = ReportedPath(name)

HasError(name) == \E k \in DOMAIN errors : IsErrorOf(name, errors[k])

-----------------------------------------------------------------------------
\* C1: failure isolation.  Once a Ready engine has listed N >= 1 candidates,
\* the request is never answered with an error: when it is answered, it is
\* with a report, every candidate has been opened exactly once, in listing
\* order, and the captioner has been called exactly once for each candidate
\* whose open succeeded, and for no other; while it runs, the candidates
\* opened so far are a prefix of the candidate list, and it can always take
\* its next step.
C1_FailureIsolation ==
    image_filenames # <<>> =>
        /\ response.status \in {0, 200}
        /\ Answered \/ ENABLED Next
        /\ Len(OpenCalls) <= Len(image_filenames)
        /\ \A i \in DOMAIN OpenCalls :
               OpenCalls[i].arg = PathJoin(folder_path, image_filenames[i])
        /\ Args(CaptionerCalls) \in
               { Args(SelectSeq(OpenCalls, LAMBDA c : c.ok)),
                 Args(SelectSeq(SubSeq(OpenCalls, 1, Len(OpenCalls) - 1),
                                LAMBDA c : c.ok)) }
        /\ Answered =>
               /\ response.status = 200
               /\ Len(OpenCalls) = Len(image_filenames)
               /\ Args(CaptionerCalls) = Args(SelectSeq(OpenCalls, LAMBDA c : c.ok))
               /\ response.body.total_images_found = Len(image_filenames)

\* A report on three candidates: the first could not be opened, the captioner
\* raised on the second, and the third was still captioned.
C1_Witness ==
    /\ Reported
    /\ Len(image_filenames) = 3
    /\ ~OpenCalls[1].ok
    /\ Len(CaptionerCalls) = 2
    /\ ~CaptionerCalls[1].ok
    /\ Len(results) = 1
    /\ HasResult(image_filenames[3])

-----------------------------------------------------------------------------
\* C2: every report has successfully_captioned = len(results),
\* successfully_captioned <= total_images_found and
\* len(results) + len(errors) <= total_images_found.
C2_ReportCounts ==
    Reported =>
        LET body == response.body
        IN  /\ body.successfully_captioned = Len(body.results)
            /\ body.successfully_captioned <= body.total_images_found
            /\ Len(body.results) + Len(body.errors) <= body.total_images_found

\* A report with both results and errors.
C2_Witness ==
    /\ Reported
    /\ response.body.successfully_captioned = 2
    /\ Len(response.body.errors) = 1
    /\ response.body.total_images_found = 3

-----------------------------------------------------------------------------
\* C3: while the engine is not Ready, a request makes no call at all (no
\* directory check, no listing, no open, no captioner call), and it is
\* answered with 503.
C3_UnavailableFirst ==
    (captioner = "None" /\ pc # "startup") =>
        /\ calls = <<>>
        /\ pc \in {"idle", "check_captioner", "done"}
        /\ Answered => response.status = 503 /\ "body" \notin DOMAIN response

\* A request answered with 503.
C3_Witness ==
    /\ Answered
    /\ captioner = "None"
    /\ folder_path \in FolderPaths
    /\ response.status = 503
    /\ calls = <<>>

-----------------------------------------------------------------------------
\* C4: with a Ready engine, a request is answered with 400 exactly when
\* isdir returned False, and with 500 exactly when listdir raised; an answer
\* that is not a report is one of 503, 400, 500, carries no report, and no
\* open or captioner call was made for it; a report is given only after
\* isdir returned True and listdir returned.
C4_BatchFatal ==
    Answered =>
        /\ response.status \in {200, 503, 400, 500}
        /\ response.status = 503 <=> captioner = "None"
        /\ response.status = 400 <=>
               (captioner # "None" /\ calls = << Call("isdir", folder_path, FALSE) >>)
        /\ response.status = 500 <=>
               (captioner # "None" /\ calls = << Call("isdir", folder_path, TRUE),
                                                  Call("listdir", folder_path, FALSE) >>)
        /\ response.status # 200 =>
               /\ "body" \notin DOMAIN response
               /\ OpenCalls = <<>>
               /\ CaptionerCalls = <<>>
        /\ response.status = 200 =>
               /\ Len(calls) >= 2
               /\ calls[1] = Call("isdir", folder_path, TRUE)
               /\ calls[2] = Call("listdir", folder_path, TRUE)

\* A request answered with 500 after listdir raised.
C4_Witness ==
    /\ Answered
    /\ captioner = "pipeline"
    /\ response.status = 500
    /\ Len(calls) = 2
    /\ calls[2] = Call("listdir", folder_path, FALSE)

\* A request answered with 400 after isdir returned False.
C4_WitnessInvalidInput ==
    /\ Answered
    /\ captioner = "pipeline"
    /\ response.status = 400
    /\ calls = << Call("isdir", folder_path, FALSE) >>

-----------------------------------------------------------------------------
\* C5: the kind of the message of a report is decided by total_images_found
\* and len(results): 0 found gives "no_images" (with no result, no error and
\* no captioner call); all found captioned gives "all"; some but not all
\* gives "partial"; none of N > 0 gives "none"; there is no other kind.
C5_MessageKind ==
    Reported =>
        LET body == response.body
            total == body.total_images_found
            count == Len(body.results)
        IN  /\ body.message.kind \in {"no_images", "all", "partial", "none"}
            /\ total = 0 =>
                   /\ body.message.kind = "no_images"
                   /\ body.results = <<>>
                   /\ body.errors = <<>>
                   /\ CaptionerCalls = <<>>
            /\ (total > 0 /\ count = total) =>
                   body.message.kind = "all" /\ body.message.total = total
            /\ (0 < count /\ count < total) =>
                   /\ body.message.kind = "partial"
                   /\ body.message.count = count
                   /\ body.message.total = total
            /\ (total > 0 /\ count = 0) =>
                   body.message.kind = "none" /\ body.message.total = total

\* A report whose message is "all 2 succeeded".
C5_Witness ==
    /\ Reported
    /\ response.body.total_images_found = 2
    /\ Len(response.body.results) = 2
    /\ response.body.message.kind = "all"

C5_WitnessPartial ==
    /\ Reported
    /\ response.body.total_images_found = 3
    /\ Len(response.body.results) = 1
    /\ response.body.message.kind = "partial"

C5_WitnessNone ==
    /\ Reported
    /\ response.body.total_images_found = 2
    /\ response.body.message.kind = "none"

C5_WitnessNoImages ==
    /\ Reported
    /\ all_files_in_dir # <<>>
    /\ response.body.message.kind = "no_images"

-----------------------------------------------------------------------------
\* The name ends, case-insensitively, with a supported extension.
HasSupportedExtension(name) == EndsWithAny(Lower(name), SUPPORTED_EXTENSIONS)

\* The entry `name` of the listing left no trace: it was not opened, and it
\* has no result and no error.
Excluded(name) ==
    /\ \A i \in DOMAIN OpenCalls : OpenCalls[i].arg # PathJoin(folder_path, name)
    /\ ~HasResult(name)
    /\ ~HasError(name)

C6_ScanByName ==
    Reported =>
        LET names == all_files_in_dir
        IN  /\ response.body.total_images_found =
                   Cardinality({ i \in DOMAIN names : HasSupportedExtension(names[i]) })
            /\ \A i \in DOMAIN names :
                   ~HasSupportedExtension(names[i]) => Excluded(names[i])

-----------------------------------------------------------------------------
\* C7: only startup sets the engine handle, no step of a request changes it,
\* and a request answered while the handle is None is answered with 503.
C7_HandleLifecycle ==
    [][ /\ captioner' # captioner => pc = "startup"
        /\ (pc' = "done" /\ captioner' = "None") => response'.status = 503
      ]_vars

\* After a failed startup, the second request too is answered with 503.
C7_Witness ==
    /\ Answered
    /\ captioner = "None"
    /\ requests_served = 2
    /\ response.status = 503

\* After a successful startup, the second request finds the engine Ready.
C7_WitnessReady ==
    /\ Reported
    /\ captioner = "pipeline"
    /\ requests_served = 2
    /\ results # <<>>

-----------------------------------------------------------------------------
\* C8: in a report every candidate has exactly one record, a result or an
\* error prefixed with its file name; so len(results) + len(errors) is
\* total_images_found, and the message never carries the discrepancy warning.
\* Between two candidates, the records are as many as the candidates done.
C8_OneRecordPerCandidate ==
    /\ pc = "loop" => Len(results) + Len(errors) = idx
    /\ Reported =>
           LET body == response.body
           IN  /\ \A i \in DOMAIN image_filenames :
                      Cardinality({ k \in DOMAIN body.results :
                                      body.results[k].image_path =
                                          ReportedPath(image_filenames[i]) })
                      + Cardinality({ k \in DOMAIN body.errors :
                                        IsErrorOf(image_filenames[i], body.errors[k]) })
                      = 1
               /\ Len(body.results) + Len(body.errors) = body.total_images_found
               /\ ~body.message.discrepancy

\* A report on three candidates with two errors and one result.
C8_Witness ==
    /\ Reported
    /\ response.body.total_images_found = 3
    /\ Len(response.body.errors) = 2
    /\ Len(response.body.results) = 1
    /\ captions_output = PyList(<< PyStr(<<"a"," ","b">>) >>)

-----------------------------------------------------------------------------
\* d is t without its leading and trailing whitespace.
IsTrimOf(d, t) ==
    \E i, j \in 0..Len(t) :
        /\ i + j <= Len(t)
        /\ d = SubSeq(t, i + 1, Len(t) - j)
        /\ \A k \in 1..i : t[k] \in WhitespaceChars
        /\ \A k \in (Len(t) - j + 1)..Len(t) : t[k] \in WhitespaceChars
        /\ d # <<>> => d[1] \notin WhitespaceChars /\ d[Len(d)] \notin WhitespaceChars

\* This step appends one result for the current candidate, its description
\* the trimmed `text`, and no error.
YieldsResult(text) ==
    /\ Len(results') = Len(results) + 1
    /\ SubSeq(results', 1, Len(results)) = results
    /\ results'[Len(results')].image_path = ReportedPath(filename)
    /\ IsTrimOf(results'[Len(results')].description, text)
    /\ errors' = errors

\* This step appends one error for the current candidate, and no result.
YieldsError ==
    /\ results' = results
    /\ Len(errors') = Len(errors) + 1
    /\ SubSeq(errors', 1, Len(errors)) = errors
    /\ IsErrorOf(filename, errors'[Len(errors')])

\* This step does not answer the request.
NotFatal == pc' # "done" /\ response' = NoResponse

\* The first element of the output is a dict with a textual generated_text.
FirstHasText(output) ==
    /\ output.items # <<>>
    /\ output.items[1].t = "dict"
    /\ "generated_text" \in DOMAIN output.items[1].d
    /\ output.items[1].d["generated_text"].t = "str"

TextOf(output) == output.items[1].d["generated_text"].s

\* C9 as stated: a decoded candidate yields a result exactly when the
\* captioner returns a non-empty list whose first element has a non-empty
\* text, the description being the trimmed text; an exception, an empty or
\* None output and any other shape, empty text included, yield an error.
C9_AsStated ==
    [][ /\ pc = "validate" =>
               /\ NotFatal
               /\ IF /\ captions_output.t = "list"
                     /\ FirstHasText(captions_output)
                     /\ TextOf(captions_output) # <<>>
                  THEN YieldsResult(TextOf(captions_output))
                  ELSE YieldsError
        /\ (pc = "caption" /\ calls' # calls /\ ~calls'[Len(calls')].ok) =>
               NotFatal /\ YieldsError
      ]_vars

\* C9, amended: a decoded candidate yields a result exactly when the
\* captioner returns a non-empty list whose first element is a dict with a
\* textual generated_text, empty text included, the description being the
\* trimmed text (possibly empty); an exception, an empty or None output and
\* any other shape yield an error, and never end the request.
C9_OutputShape ==
    [][ /\ pc = "validate" =>
               /\ NotFatal
               /\ IF captions_output.t = "list" /\ FirstHasText(captions_output)
                  THEN YieldsResult(TextOf(captions_output))
                  ELSE YieldsError
        /\ (pc = "caption" /\ calls' # calls /\ ~calls'[Len(calls')].ok) =>
               NotFatal /\ YieldsError
      ]_vars

\* The captioner returned an empty text, and the candidate has a result with
\* an empty description.
C9_Witness ==
    /\ pc = "loop"
    /\ captions_output = PyList(<< PyDict("generated_text" :> PyStr(<<>>)) >>)
    /\ calls[Len(calls)] = Call("captioner", PathJoin(folder_path, filename), TRUE)
    /\ results # <<>>
    /\ results[Len(results)] =
           ImageCaptionResponseItem(ReportedPath(filename), <<>>)

\* The captioner returned a text with whitespace around it, and the
\* candidate has a result with the text trimmed.
C9_WitnessTrimmed ==
    /\ pc = "loop"
    /\ captions_output =
           PyList(<< PyDict("generated_text" :> PyStr(<<" ","a"," ","b","\n">>)) >>)
    /\ calls[Len(calls)] = Call("captioner", PathJoin(folder_path, filename), TRUE)
    /\ results # <<>>
    /\ results[Len(results)] =
           ImageCaptionResponseItem(ReportedPath(filename), <<"a"," ","b">>)

-----------------------------------------------------------------------------
\* C10: in a report, the results are the candidates that have a result, in
\* listing order, and the errors are those that have an error, in listing
\* order; if exactly one candidate could not be opened and every other was
\* captioned, there is one error, for that candidate, and the results are
\* the other candidates in their order.
C10_ListingOrder ==
    Reported =>
        LET body == response.body
            succeeded == SelectSeq(image_filenames, HasResult)
            failed == SelectSeq(image_filenames, HasError)
        IN  /\ Len(body.results) = Len(succeeded)
            /\ \A k \in DOMAIN body.results :
                   body.results[k].image_path = ReportedPath(succeeded[k])
            /\ Len(body.errors) = Len(failed)
            /\ \A k \in DOMAIN body.errors : IsErrorOf(failed[k], body.errors[k])
            /\ \A bad \in DOMAIN image_filenames :
                   ( /\ Len(OpenCalls) = Len(image_filenames)
                     /\ \A i \in DOMAIN OpenCalls : OpenCalls[i].ok <=> i # bad
                     /\ Len(body.results) = Len(image_filenames) - 1 )
                   => /\ Len(body.errors) = 1
                      /\ IsErrorOf(image_filenames[bad], body.errors[1])
                      /\ [k \in DOMAIN body.results |-> body.results[k].image_path]
                           = [k \in 1..(Len(image_filenames) - 1) |->
                                ReportedPath(image_filenames[IF k < bad THEN k ELSE k + 1])]

\* Three candidates, the second of which could not be opened: one error, for
\* it, and two results.
C10_Witness ==
    /\ Reported
    /\ Len(image_filenames) = 3
    /\ OpenCalls[1].ok /\ ~OpenCalls[2].ok /\ OpenCalls[3].ok
    /\ Len(response.body.results) = 2
    /\ Len(response.body.errors) = 1
    /\ IsErrorOf(image_filenames[2], response.body.errors[1])

====
